---- MODULE Spec2Model ----
(***************************************************************************)
(* A model of src/src/shape/xml.ts: building a node structure from an XML  *)
(* template (parseXML), resolving its layout (getBBox, generateTarget),    *)
(* diffing two resolved structures (compareTwoTarget) and the draw /       *)
(* update / setState handlers returned by createNodeFromXML.               *)
(*                                                                         *)
(* JavaScript values are records whose field name is the value's kind, so  *)
(* that values of different kinds are comparable and never equal:          *)
(*   [undef |-> TRUE]        undefined                                     *)
(*   [nan |-> TRUE]          NaN                                           *)
(*   [num |-> n]             a number                                      *)
(*   [str |-> s]             a string                                      *)
(*   [bool |-> b]            a boolean                                     *)
(*   [ref |-> r, obj |-> m]  an object: its identity r and its fields m    *)
(* JavaScript objects used as maps (attrs, cfg) are functions from field   *)
(* names to values; a field that is not in the DOMAIN reads as undefined.  *)
(* TLA+ equality of two values is JavaScript's ===: two objects are equal  *)
(* exactly when they are the same allocation (same ref).                   *)
(***************************************************************************)
EXTENDS Integers, Sequences, FiniteSets, TLC

VARIABLES
    structures,  \* createNodeFromXML: the Map from cfg.id to [last target]
    surface,     \* per node id: the container's children (host shapes), in order
    models,      \* per node id: the model the graph holds for the node (node.get('model'))
    calls,       \* number of draw/update/setState calls made so far
    created,     \* every type ever handed to the host's addShape
    hist,        \* per node id: the targets resolved by the calls that returned
    last,        \* what the most recent call did (its cfg, diff, host calls, ...)
    pc,          \* position of the pure pipeline: "idle", "start", "resolved", "compared"
    pin,         \* the pure pipeline's inputs
    pout         \* the pure pipeline's results

vars == <<structures, surface, models, calls, created, hist, last, pc, pin, pout>>

----------------------------------------------------------------------------
(* JavaScript values *)

Undefined == [undef |-> TRUE]
NaN == [nan |-> TRUE]
Num(n) == [num |-> n]
Str(s) == [str |-> s]
Bool(b) == [bool |-> b]
Obj(r, m) == [ref |-> r, obj |-> m]

IsUndef(v) == "undef" \in DOMAIN v
IsNaN(v) == "nan" \in DOMAIN v
IsNum(v) == "num" \in DOMAIN v
IsStr(v) == "str" \in DOMAIN v
IsBool(v) == "bool" \in DOMAIN v
IsObj(v) == "obj" \in DOMAIN v

EmptyMap == [k \in {} |-> Undefined]

\* obj[k]
Get(m, k) == IF k \in DOMAIN m THEN m[k] ELSE Undefined

\* {...a, ...b}
Merge(a, b) == [k \in DOMAIN a \cup DOMAIN b |-> IF k \in DOMAIN b THEN b[k] ELSE a[k]]

\* obj with obj[k] = v
Put(m, k, v) == [x \in DOMAIN m \cup {k} |-> IF x = k THEN v ELSE m[x]]

\* if (v): JavaScript truthiness
Truthy(v) ==
    CASE IsUndef(v) -> FALSE
      [] IsNaN(v) -> FALSE
      [] IsNum(v) -> v.num # 0
      [] IsStr(v) -> v.str # ""
      [] IsBool(v) -> v.bool
      [] OTHER -> TRUE

\* String(v), as join('') and + apply it to the values used here
ToText(v) ==
    CASE IsNum(v) -> ToString(v.num)
      [] IsStr(v) -> v.str
      [] IsBool(v) -> IF v.bool THEN "true" ELSE "false"
      [] IsUndef(v) -> "undefined"
      [] IsNaN(v) -> "NaN"
      [] OTHER -> "[object Object]"

\* a + b for the operands used here: numbers add, anything else concatenates
JsAdd(a, b) ==
    IF IsNum(a) /\ IsNum(b) THEN Num(a.num + b.num)
    ELSE IF IsNaN(a) \/ IsNaN(b) \/ IsUndef(a) \/ IsUndef(b) THEN NaN
    ELSE Str(ToText(a) \o ToText(b))

\* a * b
JsMul(a, b) == IF IsNum(a) /\ IsNum(b) THEN Num(a.num * b.num) ELSE NaN

\* a >= 0 and a > b: false as soon as an operand is not a number
JsGe0(a) == IsNum(a) /\ a.num >= 0
JsGt(a, b) == IsNum(a) /\ IsNum(b) /\ a.num > b.num

Range(s) == {s[i] : i \in DOMAIN s}

----------------------------------------------------------------------------
(* xmlDataRenderer: the {{}} template renderer.                            *)
(* A template text is kept as the segments xml.split(/{{|}}/g) yields.  A  *)
(* segment [text, word, path] has word = TRUE when its trimmed text        *)
(* matches /^[\w.]+$/, and then path is that text split at the dots.       *)

Lit(s) == [text |-> s, word |-> FALSE, path |-> <<>>]

RECURSIVE JoinDot(_)
JoinDot(path) ==
    IF Len(path) = 0 THEN ""
    ELSE IF Len(path) = 1 THEN path[1]
    ELSE path[1] \o "." \o JoinDot(Tail(path))

Word(path) == [text |-> JoinDot(path), word |-> TRUE, path |-> path]

\* lodash.get(data, path, dflt)
RECURSIVE lodashGetFrom(_, _)
lodashGetFrom(v, path) ==
    IF Len(path) = 0 THEN v
    ELSE IF IsObj(v) THEN lodashGetFrom(Get(v.obj, path[1]), Tail(path))
    ELSE Undefined

lodashGet(data, path, dflt) ==
    LET v == lodashGetFrom(Obj(<<>>, data), path)
    IN IF IsUndef(v) THEN dflt ELSE v

RECURSIVE JoinText(_)
JoinText(vals) == IF Len(vals) = 0 THEN "" ELSE ToText(vals[1]) \o JoinText(Tail(vals))

xmlDataRenderer(segs, data) ==
    JoinText([i \in 1..Len(segs) |->
                 IF segs[i].word THEN lodashGet(data, segs[i].path, Str(segs[i].text))
                 ELSE Str(segs[i].text)])

----------------------------------------------------------------------------
(* JSON5.parse.  The literals it accepts here are the texts of a finite    *)
(* set of literal terms; every other text is a syntax error.  A term is    *)
(*   [n |-> 100]  [s |-> "red"]  [b |-> TRUE]                              *)
(*   [o |-> << [k |-> "width", v |-> term], ... >>]                        *)

LN(n) == [n |-> n]
LS(s) == [s |-> s]
LB(b) == [b |-> b]
LO(fields) == [o |-> fields]
F(k, v) == [k |-> k, v |-> v]

RECURSIVE LitText(_)
RECURSIVE FieldsText(_)
FieldsText(fs) ==
    IF Len(fs) = 0 THEN ""
    ELSE fs[1].k \o ": " \o LitText(fs[1].v)
         \o (IF Len(fs) > 1 THEN ", " ELSE "") \o FieldsText(Tail(fs))

LitText(l) ==
    CASE "n" \in DOMAIN l -> ToString(l.n)
      [] "s" \in DOMAIN l -> "'" \o l.s \o "'"
      [] "b" \in DOMAIN l -> (IF l.b THEN "true" ELSE "false")
      [] OTHER -> "{" \o FieldsText(l.o) \o "}"

\* The value a literal term denotes.  Each object of the term is a fresh
\* allocation: its identity is the place of the parse (alloc) and its path.
RECURSIVE LitValue(_, _)
LitValue(l, alloc) ==
    CASE "n" \in DOMAIN l -> Num(l.n)
      [] "s" \in DOMAIN l -> Str(l.s)
      [] "b" \in DOMAIN l -> Bool(l.b)
      [] OTHER ->
           Obj(alloc,
               [k \in {l.o[i].k : i \in DOMAIN l.o} |->
                  LET i == CHOOSE j \in DOMAIN l.o :
                              l.o[j].k = k /\ \A j2 \in DOMAIN l.o : l.o[j2].k = k => j2 <= j
                  IN LitValue(l.o[i].v, Append(alloc, i))])

NumLits == {0, 5, 6, 10, 20, 50, 60, 100, 120}

StyleWH(w, h) == LO(<<F("width", LN(w)), F("height", LN(h))>>)
StyleWHFill(w, h) == LO(<<F("width", LN(w)), F("height", LN(h)), F("fill", LS("red"))>>)
StyleW(w) == LO(<<F("width", LN(w))>>)
StyleR(r) == LO(<<F("r", LN(r))>>)
StyleRxRy(rx, ry) == LO(<<F("rx", LN(rx)), F("ry", LN(ry))>>)
StyleLength(n) == LO(<<F("length", LN(n))>>)
StyleKeyW(k, w) == LO(<<F("key", LS(k)), F("width", LN(w))>>)
StyleShadow(w, b) == LO(<<F("width", LN(w)), F("shadow", LO(<<F("blur", LN(b))>>))>>)
StyleMargin(w, h, mt, ml) ==
    LO(<<F("width", LN(w)), F("height", LN(h)), F("marginTop", LN(mt)), F("marginLeft", LN(ml))>>)

Literals ==
    {LN(n) : n \in NumLits} \cup {LB(TRUE), LB(FALSE)}
    \cup {StyleWH(w, h) : w \in {100, 120}, h \in {50, 60}}
    \cup {StyleWHFill(w, h) : w \in {100, 120}, h \in {50, 60}}
    \cup {StyleW(10), StyleR(10), StyleRxRy(20, 10), StyleLength(6), StyleKeyW("k", 10),
          StyleShadow(10, 5), StyleMargin(20, 10, 5, 5)}

\* the value of the literal among terms, or the syntax error when there is none
ParseTerm(terms, alloc) ==
    IF terms # {}
    THEN [ok |-> TRUE, val |-> LitValue(CHOOSE l \in terms : TRUE, alloc)]
    ELSE [ok |-> FALSE]

\* JSON5.parse(val): [ok |-> TRUE, val |-> value], or [ok |-> FALSE] when it throws
JSON5parse(raw, alloc) == ParseTerm({l \in Literals : LitText(l) = raw}, alloc)

\* {...style}: the own enumerable fields of a parsed literal (numbers and
\* booleans have none; the reserved attributes here never hold a string)
Spread(v) == IF IsObj(v) THEN v.obj ELSE EmptyMap

----------------------------------------------------------------------------
(* parseXML *)

\* b.charAt(0).toUpperCase() + b.slice(1), for the name parts used here
Capitalize(b) ==
    CASE b = "top" -> "Top"
      [] b = "left" -> "Left"
      [] b = "size" -> "Size"
      [] OTHER -> b

\* keyConvert: an attribute name is kept as its parts str.split('-')
RECURSIVE keyConvertFrom(_, _)
keyConvertFrom(a, parts) ==
    IF Len(parts) = 0 THEN a
    ELSE keyConvertFrom(a \o Capitalize(parts[1]), Tail(parts))

keyConvert(parts) == keyConvertFrom(parts[1], Tail(parts))

\* xml.tagName.toLowerCase(): the HTML parser reports tag names in upper case
toLowerCase(tag) ==
    CASE tag = "RECT" -> "rect"
      [] tag = "GROUP" -> "group"
      [] tag = "CIRCLE" -> "circle"
      [] tag = "ELLIPSE" -> "ellipse"
      [] tag = "TEXT" -> "text"
      [] OTHER -> tag

Throw == [throw |-> TRUE]
IsThrow(r) == "throw" \in DOMAIN r

\* StoreOther, had it stored the attribute in attrs
StoreInAttrs(st, key, v) == [st EXCEPT !.attrs = Put(@, key, v)]

\* rst[key] = value, for an attribute that is neither style nor attrs
StoreOther(st, key, v) == [st EXCEPT !.rest = Put(@, key, v)]

\* The forEach over the attribute names.  st = [attrs, rest]: the attrs
\* collected so far and the other properties set on rst; or Throw.
RECURSIVE parseAttributes(_, _, _, _)
RECURSIVE parseAttribute(_, _, _, _, _, _, _)

\* the callback for attribute i: key its converted name, val its text and p
\* the outcome of JSON5.parse(val)
parseAttribute(attributes, i, st, alloc, key, val, p) ==
    IF p.ok THEN
        IF key = "style" \/ key = "attrs"
        THEN parseAttributes(attributes, i + 1,
                             [st EXCEPT !.attrs = Merge(@, Spread(p.val))], alloc)
        ELSE parseAttributes(attributes, i + 1, StoreOther(st, key, p.val), alloc)
    ELSE
        IF key = "style" THEN Throw
        ELSE parseAttributes(attributes, i + 1, StoreOther(st, key, Str(val)), alloc)

parseAttributes(attributes, i, st, alloc) ==
    IF i > Len(attributes) THEN st
    ELSE parseAttribute(attributes, i, st, alloc,
                        keyConvert(attributes[i].name),
                        attributes[i].val,
                        JSON5parse(attributes[i].val, Append(alloc, i)))

\* An element is [tagName, attributes, innerText, children]; attributes is a
\* sequence of [name |-> parts, val |-> text].  The result is a node
\* [type, attrs, rest] with a children field only when there are children
\* (rest holds the properties rst[key] other than type, attrs and children;
\* rst.attrs itself is overwritten by line 74), or Throw.
RECURSIVE parseXML(_, _)

\* rst once the attributes (st) and the children are parsed
parsedNode(tagName, st, children) ==
    IF \E i \in DOMAIN children : IsThrow(children[i]) THEN Throw
    ELSE IF IsThrow(st) THEN Throw
    ELSE IF Len(children) > 0
    THEN [type |-> tagName,
          attrs |-> st.attrs,
          rest |-> [k \in DOMAIN st.rest \ {"attrs"} |-> st.rest[k]],
          children |-> children]
    ELSE [type |-> tagName,
          attrs |-> st.attrs,
          rest |-> [k \in DOMAIN st.rest \ {"attrs"} |-> st.rest[k]]]

\* attrs as parseXML starts it: the inner text of a text element
InitialAttrs(xml) ==
    IF toLowerCase(xml.tagName) = "text" THEN [text |-> Str(xml.innerText)] ELSE EmptyMap

parseXML(xml, alloc) ==
    parsedNode(toLowerCase(xml.tagName),
               parseAttributes(xml.attributes, 1,
                               [attrs |-> InitialAttrs(xml), rest |-> EmptyMap], alloc),
               [i \in 1..Len(xml.children) |-> parseXML(xml.children[i], Append(alloc, i))])

----------------------------------------------------------------------------
(* getBBox and generateTarget: the layout *)

\* offset.x || 0
OrZero(v) == IF Truthy(v) THEN v ELSE Num(0)

\* attrs.text.length
TextLength(v) == IF IsStr(v) THEN Num(Len(v.str)) ELSE Undefined

\* [w, h]: shapeWidth and shapeHeight after the switch on node.type
ShapeSize(type, attrs) ==
    LET none == [w |-> Undefined, h |-> Undefined]
    IN
    CASE type \in {"maker", "circle"} ->
           IF Truthy(Get(attrs, "r"))
           THEN [w |-> JsMul(Num(2), attrs.r), h |-> JsMul(Num(2), attrs.r)]
           ELSE none
      [] type = "ellipse" ->
           IF Truthy(Get(attrs, "rx")) /\ Truthy(Get(attrs, "ry"))
           THEN [w |-> JsMul(Num(2), attrs.rx), h |-> JsMul(Num(2), attrs.ry)]
           ELSE none
      [] type = "text" ->
           IF Truthy(Get(attrs, "text"))
           THEN [w |-> JsMul(TextLength(attrs.text), Get(attrs, "length")), h |-> Num(16)]
           ELSE none
      [] OTHER ->
           [w |-> IF Truthy(Get(attrs, "width")) THEN attrs.width ELSE Undefined,
            h |-> IF Truthy(Get(attrs, "height")) THEN attrs.height ELSE Undefined]

\* the bbox and node.attrs after the switch has left size = [w, h]
sizedBBox(node, offset, chilrenBBox, size, isText) ==
    LET y0 == OrZero(offset.y)
        y1 == IF isText THEN JsAdd(y0, size.h) ELSE y0
        x0 == OrZero(offset.x)
    IN [bbox |-> [x |-> IF Truthy(Get(node.attrs, "marginLeft"))
                        THEN JsAdd(x0, node.attrs.marginLeft) ELSE x0,
                  y |-> IF Truthy(Get(node.attrs, "marginTop"))
                        THEN JsAdd(y1, node.attrs.marginTop) ELSE y1,
                  width |-> IF JsGe0(size.w) THEN size.w ELSE OrZero(chilrenBBox.width),
                  height |-> IF JsGe0(size.h) THEN size.h ELSE OrZero(chilrenBBox.height)],
        attrs |-> IF isText
                  THEN Merge([fontSize |-> Num(12), fill |-> Str("#000")], node.attrs)
                  ELSE node.attrs]

\* getBBox returns the bbox; it also replaces node.attrs of a text node that
\* has a text.  The result is [bbox, attrs]: the bbox and node.attrs after.
getBBox(node, offset, chilrenBBox) ==
    sizedBBox(node, offset, chilrenBBox, ShapeSize(node.type, node.attrs),
              node.type = "text" /\ Truthy(Get(node.attrs, "text")))

\* Grow, had it left the child's x and y out of its extent
GrowBySize(defaultBbox, bbox) ==
    [defaultBbox EXCEPT
       !.width = IF JsGt(bbox.width, @) THEN bbox.width ELSE @,
       !.height = IF JsGt(bbox.height, @) THEN bbox.height ELSE @]

\* lines 170-175: the running enclosing box after a child with this bbox
Grow(defaultBbox, bbox) ==
    LET right == JsAdd(bbox.width, bbox.x)
        bottom == JsAdd(bbox.height, bbox.y)
    IN [defaultBbox EXCEPT
          !.width = IF JsGt(right, @) THEN right ELSE @,
          !.height = IF JsGt(bottom, @) THEN bottom ELSE @]

RECURSIVE generateTarget(_, _)
RECURSIVE layoutChildren(_, _, _, _, _)

\* the rest of the loop once child `index` is resolved to node
layoutNext(children, index, offset, defaultBbox, attrs, node) ==
    layoutChildren(
        [children EXCEPT ![index] = node],
        index + 1,
        [offset EXCEPT !.y = JsAdd(@, node.bbox.height)],
        Grow(defaultBbox, node.bbox),
        attrs)

\* attrs.key || 'root'
ParentKey(attrs) == IF Truthy(Get(attrs, "key")) THEN attrs.key ELSE Str("root")

\* The for loop of generateTarget from child `index` (1-based here) on:
\* [children, defaultBbox] when it ends.
layoutChildren(children, index, offset, defaultBbox, attrs) ==
    IF index > Len(children) THEN [children |-> children, defaultBbox |-> defaultBbox]
    ELSE layoutNext(children, index, offset, defaultBbox, attrs,
                    generateTarget(
                        [children[index] EXCEPT
                           !.attrs = Put(@, "key", JsAdd(JsAdd(ParentKey(attrs), Str("-")),
                                                         Num(index - 1)))],
                        offset))

HasChildren(node) == "children" \in DOMAIN node /\ Len(node.children) > 0

\* defaultBbox as generateTarget starts it
DefaultBbox(lastOffset) ==
    Merge([x |-> Num(0), y |-> Num(0), width |-> Num(0), height |-> Num(0)], lastOffset)

\* the offset the children start from
ChildOffset(target, lastOffset) ==
    IF Truthy(Get(target.attrs, "marginTop"))
    THEN [lastOffset EXCEPT !.y = JsAdd(@, target.attrs.marginTop)]
    ELSE lastOffset

\* lines 178-186: target.bbox and target.attrs from the box getBBox returned
withBBox(target, box) ==
    Put(Put(target, "bbox", box.bbox), "attrs", Merge(box.attrs, box.bbox))

\* the target after the loop has left laid = [children, defaultBbox]
laidOut(target, lastOffset, laid) ==
    withBBox([target EXCEPT !.children = laid.children],
             getBBox([target EXCEPT !.children = laid.children], lastOffset, laid.defaultBbox))

generateTarget(target, lastOffset) ==
    IF HasChildren(target)
    THEN laidOut(target, lastOffset,
                 layoutChildren(target.children, 1, ChildOffset(target, lastOffset),
                                DefaultBbox(lastOffset), target.attrs))
    ELSE withBBox(target, getBBox(target, lastOffset, DefaultBbox(lastOffset)))

ZeroOffset == [x |-> Num(0), y |-> Num(0)]

----------------------------------------------------------------------------
(* compareTwoTarget.  An absent node (undefined) is Undefined.  The       *)
(* function assigns to nowTarget.attrs.key, so the model returns           *)
(* [diff, now]: the returned diff and nowTarget as the call leaves it.     *)
(* A diff field the code leaves undefined (type, key) is left out.         *)

\* x.children?.length
ChildrenLength(node) ==
    IF "children" \in DOMAIN node THEN Num(Len(node.children)) ELSE Undefined

\* MathMax, had the code called Math.min
MathMin(a, b) ==
    IF IsNum(a) /\ IsNum(b) THEN (IF a.num <= b.num THEN a ELSE b) ELSE NaN

\* Math.max(a, b): NaN as soon as an operand is not a number
MathMax(a, b) ==
    IF IsNum(a) /\ IsNum(b) THEN (IF a.num >= b.num THEN a ELSE b) ELSE NaN

\* x.children || []
ChildrenOrEmpty(node) == IF "children" \in DOMAIN node THEN node.children ELSE <<>>

\* arr[index] (0-based in the code, 1-based here)
At(arr, i) == IF i \in DOMAIN arr THEN arr[i] ELSE Undefined

\* the test of line 250: some attribute of formerTarget differs in nowTarget
AttrsChanged(nowAttrs, formerAttrs) ==
    \E e \in DOMAIN formerAttrs \ {"children"} :
        Get(nowAttrs, e) # formerAttrs[e] \/ e \notin DOMAIN nowAttrs

\* const { key } = formerTarget?.attrs || {}
FormerKey(formerTarget) ==
    IF IsUndef(formerTarget) THEN Undefined ELSE Get(formerTarget.attrs, "key")

\* CarryKey, had it assigned every attr of formerTarget
CarryAttrs(nowTarget, formerTarget) ==
    IF Truthy(FormerKey(formerTarget)) /\ ~IsUndef(nowTarget)
    THEN [nowTarget EXCEPT !.attrs = Merge(@, formerTarget.attrs)]
    ELSE nowTarget

\* lines 200-202: nowTarget after if (key && nowTarget) nowTarget.attrs.key = key
CarryKey(nowTarget, formerTarget) ==
    IF Truthy(FormerKey(formerTarget)) /\ ~IsUndef(nowTarget)
    THEN [nowTarget EXCEPT !.attrs = Put(@, "key", FormerKey(formerTarget))]
    ELSE nowTarget

\* the bound of the loop over the children (lines 227-229): `length` when it
\* is a number; no index is below NaN
LoopLength(nowTarget, formerTarget) ==
    LET length == IF JsGt(ChildrenLength(nowTarget), Num(0))
                     \/ JsGt(ChildrenLength(formerTarget), Num(0))
                  THEN MathMax(ChildrenLength(nowTarget), ChildrenLength(formerTarget))
                  ELSE Num(0)
    IN IF IsNum(length) THEN length.num ELSE 0

\* lines 238-265: the diff of two present nodes, children being the diffs of
\* their children
nodeDiff(nowTarget, formerTarget, key, children) ==
    IF formerTarget.type # nowTarget.type
    THEN [action |-> "restructure", nowTarget |-> nowTarget,
          formerTarget |-> formerTarget, key |-> key, children |-> children]
    ELSE IF AttrsChanged(nowTarget.attrs, formerTarget.attrs)
    THEN [action |-> "change", val |-> nowTarget, children |-> children,
          type |-> nowTarget.type, key |-> key]
    ELSE [action |-> "same", children |-> children, type |-> nowTarget.type, key |-> key]

\* nowTarget with the children the recursive calls (sub) have left
afterChildren(nowTarget, sub) ==
    IF "children" \in DOMAIN nowTarget
    THEN [nowTarget EXCEPT !.children =
            [i \in 1..Len(nowTarget.children) |->
               IF i <= Len(sub) THEN sub[i].now ELSE nowTarget.children[i]]]
    ELSE nowTarget

\* two present nodes, sub being the results of the calls on their children
comparedNodes(nowTarget, formerTarget, sub) ==
    [diff |-> nodeDiff(afterChildren(nowTarget, sub), formerTarget, FormerKey(formerTarget),
                       [i \in 1..Len(sub) |-> sub[i].diff]),
     now |-> afterChildren(nowTarget, sub)]

\* the cases of compareTwoTarget, nowTarget being the node after lines 200-202
RECURSIVE compareTwoTarget(_, _)
comparedTarget(nowTarget, formerTarget) ==
    CASE IsUndef(nowTarget) /\ ~IsUndef(formerTarget) ->
           [diff |-> [action |-> "delete", val |-> formerTarget,
                      key |-> FormerKey(formerTarget)],
            now |-> nowTarget]
      [] ~IsUndef(nowTarget) /\ IsUndef(formerTarget) ->
           [diff |-> [action |-> "add", val |-> nowTarget, type |-> nowTarget.type],
            now |-> nowTarget]
      [] IsUndef(nowTarget) /\ IsUndef(formerTarget) ->
           [diff |-> [action |-> "same"], now |-> nowTarget]
      [] OTHER ->
           comparedNodes(nowTarget, formerTarget,
                         [i \in 1..LoopLength(nowTarget, formerTarget) |->
                            compareTwoTarget(At(ChildrenOrEmpty(nowTarget), i),
                                             At(ChildrenOrEmpty(formerTarget), i))])

compareTwoTarget(nowTarget, formerTarget) ==
    comparedTarget(CarryKey(nowTarget, formerTarget), formerTarget)

----------------------------------------------------------------------------
(* The host surface, as the handlers use it.  A container is              *)
(* [children, log]: its shapes in order, each [type, attrs], and the host  *)
(* calls made on it.  addShape appends a shape, removeChild removes the    *)
(* shape it is given (nothing, given undefined), attr assigns the given    *)
(* attributes on the shape.                                                *)

HostAddShape(st, type, attrs) ==
    [children |-> Append(st.children, [type |-> type, attrs |-> attrs]),
     log |-> Append(st.log, [op |-> "addShape", type |-> type])]

\* children.find(e => e.attrs.key === key): the index of the shape, 0 for undefined
FindByKey(children, key) ==
    IF \E i \in DOMAIN children : Get(children[i].attrs, "key") = key
    THEN CHOOSE i \in DOMAIN children :
            /\ Get(children[i].attrs, "key") = key
            /\ \A j \in DOMAIN children : Get(children[j].attrs, "key") = key => i <= j
    ELSE 0

HostRemoveChild(st, idx) ==
    [children |-> IF idx = 0 THEN st.children
                  ELSE [i \in 1..(Len(st.children) - 1) |->
                          IF i < idx THEN st.children[i] ELSE st.children[i + 1]],
     log |-> Append(st.log, [op |-> "removeChild", found |-> idx # 0])]

HostAttr(st, idx, attrs) ==
    [children |-> [st.children EXCEPT ![idx].attrs = Merge(@, attrs)],
     log |-> Append(st.log, [op |-> "attr", found |-> TRUE])]

\* update's addShape: the node, then its children, whatever their type
RECURSIVE addShape(_, _)
RECURSIVE addShapes(_, _, _)
addShapes(nodes, i, st) ==
    IF i > Len(nodes) THEN st ELSE addShapes(nodes, i + 1, addShape(nodes[i], st))

addShape(node, st) ==
    LET st1 == HostAddShape(st, node.type, node.attrs)
    IN IF HasChildren(node) THEN addShapes(node.children, 1, st1) ELSE st1

\* update's delShape
RECURSIVE delShape(_, _)
RECURSIVE delShapes(_, _, _)
delShapes(nodes, i, st) ==
    IF i > Len(nodes) THEN st ELSE delShapes(nodes, i + 1, delShape(nodes[i], st))

delShape(node, st) ==
    LET st1 == HostRemoveChild(st, FindByKey(st.children, Get(node.attrs, "key")))
    IN IF HasChildren(node) THEN delShapes(node.children, 1, st1) ELSE st1

\* update's updateTarget: the walk over the diff
RECURSIVE updateTarget(_, _)
RECURSIVE updateTargets(_, _, _)
updateTargets(targets, i, st) ==
    IF i > Len(targets) THEN st ELSE updateTargets(targets, i + 1, updateTarget(targets[i], st))

\* the host calls for the node of the diff itself
patchShape(target, st, idx) ==
    CASE target.action = "change" ->
           IF idx # 0 THEN HostAttr(st, idx, target.val.attrs) ELSE st
      [] target.action = "add" -> addShape(target.val, st)
      [] target.action = "delete" -> delShape(target.val, st)
      [] target.action = "restructure" ->
           addShape(target.nowTarget, delShape(target.formerTarget, st))
      [] OTHER -> st

updateTarget(target, st) ==
    IF "children" \in DOMAIN target
    THEN updateTargets(target.children, 1,
                       IF "type" \in DOMAIN target /\ target.type = "group" THEN st
                       ELSE patchShape(target, st, FindByKey(st.children, Get(target, "key"))))
    ELSE IF "type" \in DOMAIN target /\ target.type = "group" THEN st
    ELSE patchShape(target, st, FindByKey(st.children, Get(target, "key")))

\* draw's renderTarget; st also carries keyshape: the index of the shape
\* draw returns, 0 for the group it was given
RECURSIVE renderTarget(_, _)
RECURSIVE renderTargets(_, _, _)
renderTargets(targets, i, st) ==
    IF i > Len(targets) THEN st ELSE renderTargets(targets, i + 1, renderTarget(targets[i], st))

\* st after the addShape of a target that is not a group
rendered(target, st, added) ==
    [children |-> added.children,
     log |-> added.log,
     keyshape |-> IF Truthy(Get(target.rest, "keyshape"))
                  THEN Len(added.children) ELSE st.keyshape]

\* lines 288-300: the shape of the target itself
renderShape(target, st) ==
    IF target.type # "group"
    THEN rendered(target, st, HostAddShape(st, target.type, target.attrs))
    ELSE st

renderTarget(target, st) ==
    IF "children" \in DOMAIN target
    THEN renderTargets(target.children, 1, renderShape(target, st))
    ELSE renderShape(target, st)

----------------------------------------------------------------------------
(* The templates gen(cfg) can return, and compileXML.                      *)
(* A template is the element the markup parser yields for its text, with   *)
(* each attribute value kept as the segments of the template renderer.     *)

E(tag, attributes, innerText, children) ==
    [tagName |-> tag, attributes |-> attributes, innerText |-> innerText, children |-> children]
A(name, segs) == [name |-> name, segs |-> segs]

SegsWH == <<Lit("{width: "), Word(<<"w">>), Lit(", height: "), Word(<<"h">>), Lit("}")>>
SegsR10 == <<Lit("{r: 10}")>>
RectWH == E("RECT", <<A(<<"style">>, SegsWH)>>, "", <<>>)
RectWHFill ==
    E("RECT", <<A(<<"style">>,
                  <<Lit("{width: "), Word(<<"w">>), Lit(", height: "), Word(<<"h">>),
                    Lit(", fill: 'red'}")>>)>>, "", <<>>)
Circle10 == E("CIRCLE", <<A(<<"style">>, SegsR10)>>, "", <<>>)

Template(name) ==
    CASE name = "rectAttr" ->
           \* <rect width="{{w}}" height="{{h}}"/>
           E("RECT", <<A(<<"width">>, <<Lit(""), Word(<<"w">>), Lit("")>>),
                       A(<<"height">>, <<Lit(""), Word(<<"h">>), Lit("")>>)>>, "", <<>>)
      [] name = "rectStyle" ->
           \* <rect style="{width: {{w}}, height: {{h}}}"/>
           RectWH
      [] name = "rectFill" ->
           \* <rect style="{width: {{w}}, height: {{h}}, fill: 'red'}"/>
           RectWHFill
      [] name = "rectState" ->
           \* <rect style="{width: {{w}}, height: {{style.h}}}"/>
           E("RECT", <<A(<<"style">>,
                         <<Lit("{width: "), Word(<<"w">>), Lit(", height: "),
                           Word(<<"style", "h">>), Lit("}")>>)>>, "", <<>>)
      [] name = "groupTwo" ->
           \* <group><rect style=.../><circle style="{r: 10}"/></group>
           E("GROUP", <<>>, "", <<RectWH, Circle10>>)
      [] name = "groupOne" ->
           \* groupTwo without its first child
           E("GROUP", <<>>, "", <<Circle10>>)
      [] name = "rectTwo" ->
           \* <rect><rect style="{... fill: 'red'}"/><rect style=.../></rect>
           E("RECT", <<>>, "", <<RectWHFill, RectWH>>)
      [] name = "sameTwo" ->
           \* <rect><rect style=.../><rect style=.../></rect>
           E("RECT", <<>>, "", <<RectWH, RectWH>>)
      [] name = "rectOne" ->
           \* rectTwo, or sameTwo, without its first child
           E("RECT", <<>>, "", <<RectWH>>)
      [] name = "groupDeep" ->
           \* groupTwo with a third child <rect style="{width: 10}"><group><circle/></group></rect>
           E("GROUP", <<>>, "",
             <<RectWH, Circle10,
               E("RECT", <<A(<<"style">>, <<Lit("{width: 10}")>>)>>, "",
                 <<E("GROUP", <<>>, "", <<Circle10>>)>>)>>)
      [] name = "nested" ->
           \* <rect style="{width: 10}"><rect style=.../></rect>
           E("RECT", <<A(<<"style">>, <<Lit("{width: 10}")>>)>>, "", <<RectWH>>)
      [] name = "badStyle" ->
           \* <rect style="{width: "/>: the style literal is cut short
           E("RECT", <<A(<<"style">>, <<Lit("{width: ")>>)>>, "", <<>>)
      [] name = "badAttrs" ->
           \* <rect attrs="{width: " style=.../>: the attrs literal is cut short
           E("RECT", <<A(<<"attrs">>, <<Lit("{width: ")>>), A(<<"style">>, SegsWH)>>, "", <<>>)
      [] name = "text" ->
           \* <group><text style="{length: 6}">hi</text><text>hi</text>
           \*   <ellipse style="{rx: 20, ry: 10}"/></group>
           E("GROUP", <<>>, "",
             <<E("TEXT", <<A(<<"style">>, <<Lit("{length: 6}")>>)>>, "hi", <<>>),
               E("TEXT", <<>>, "hi", <<>>),
               E("ELLIPSE", <<A(<<"style">>, <<Lit("{rx: 20, ry: 10}")>>)>>, "", <<>>)>>)
      [] name = "shadow" ->
           \* <rect style="{width: 10, shadow: {blur: 5}}"/>
           E("RECT", <<A(<<"style">>, <<Lit("{width: 10, shadow: {blur: 5}}")>>)>>, "", <<>>)
      [] name = "keyed" ->
           \* <rect style="{key: 'k', width: 10}"><circle style="{r: 10}"/></rect>
           E("RECT", <<A(<<"style">>, <<Lit("{key: 'k', width: 10}")>>)>>, "", <<Circle10>>)
      [] OTHER ->
           \* "margin": <group><rect style="{... marginTop: 5, marginLeft: 5}"
           \*   keyshape="true" font-size="{{w}}"/><rect style=.../></group>
           E("GROUP", <<>>, "",
             <<E("RECT", <<A(<<"style">>,
                             <<Lit("{width: 20, height: 10, marginTop: 5, marginLeft: 5}")>>),
                           A(<<"keyshape">>, <<Lit("true")>>),
                           A(<<"font", "size">>, <<Lit(""), Word(<<"w">>), Lit("")>>)>>, "", <<>>),
               RectWH>>)

\* The element the markup parser yields for the rendered text: every
\* attribute value rendered with the data.
RECURSIVE Render(_, _)
Render(tpl, data) ==
    [tagName |-> tpl.tagName,
     attributes |-> [i \in 1..Len(tpl.attributes) |->
                       [name |-> tpl.attributes[i].name,
                        val |-> xmlDataRenderer(tpl.attributes[i].segs, data)]],
     innerText |-> tpl.innerText,
     children |-> [i \in 1..Len(tpl.children) |-> Render(tpl.children[i], data)]]

\* gen(cfg), parsed: the template cfg.tpl names, rendered with cfg
gen(cfg) == Render(Template(cfg.tpl.str), cfg)

\* compileXML(cfg): the resolved target, or Throw
compileXML(cfg, alloc) ==
    LET parsed == parseXML(gen(cfg), alloc)
    IN IF IsThrow(parsed) THEN Throw ELSE generateTarget(parsed, ZeroOffset)

----------------------------------------------------------------------------
(* The handlers of createNodeFromXML as actions *)

MaxCalls == 2

Ids == {"n1", "n2"}

Cfg(id, tpl, w, h) == [id |-> Str(id), tpl |-> Str(tpl), w |-> Num(w), h |-> Num(h)]

\* a model with per-state styles: style.hover is merged in by setState
StyleModel == Obj(<<0>>, [h |-> Num(50), hover |-> Obj(<<0, 1>>, [h |-> Num(60)])])

\* the configurations the graph hands to draw and update for node id: every
\* case for node n1, a few for node n2
Cfgs(id) ==
    IF id = "n1"
    THEN {Cfg(id, t, w, 50) : t \in {"rectAttr", "rectStyle"}, w \in {100, 120}}
         \cup {Cfg(id, t, 100, 50) : t \in {"rectFill", "groupTwo", "groupDeep", "badStyle",
                                           "badAttrs", "keyed"}}
         \cup {Put(Cfg(id, "rectState", 100, 50), "style", StyleModel)}
    ELSE {Cfg(id, "rectStyle", 100, 50), Cfg(id, "groupTwo", 120, 50), Cfg(id, "badStyle", 100, 50)}

NoCall == [op |-> "none"]

Init ==
    /\ structures = EmptyMap
    /\ surface = [id \in Ids |-> <<>>]
    /\ models = EmptyMap
    /\ calls = 0
    /\ created = {}
    /\ hist = [id \in Ids |-> <<>>]
    /\ last = NoCall
    /\ pc = "idle"
    /\ pin = NoCall
    /\ pout = NoCall

\* the types the host calls of a log created
CreatedTypes(log) == {log[i].type : i \in {j \in DOMAIN log : log[j].op = "addShape"}}

\* hist keeps, per node, the last two calls that returned
Remember(h, entry) == IF Len(h) = 0 THEN <<entry>> ELSE <<h[Len(h)], entry>>

\* What a call that threw leaves behind: st is the Map as the call left it
Thrown(op, cfg, st) ==
    /\ structures' = st
    /\ last' = [op |-> op, cfg |-> cfg, threw |-> TRUE, log |-> <<>>,
                preStructures |-> structures, preSurface |-> surface]
    /\ UNCHANGED <<surface, created, hist>>

\* draw(cfg, group), with the empty group the graph creates for the node
Draw(cfg) ==
    /\ calls < MaxCalls
    /\ calls' = calls + 1
    /\ models' = Put(models, cfg.id.str, cfg)
    /\ UNCHANGED <<pc, pin, pout>>
    /\ \E target \in {compileXML(cfg, <<calls + 1>>)} :
         IF IsThrow(target) THEN Thrown("draw", cfg, structures)
         ELSE
           \E st \in {renderTarget(target, [children |-> <<>>, log |-> <<>>, keyshape |-> 0])} :
             /\ surface' = [surface EXCEPT ![cfg.id.str] = st.children]
             /\ structures' = Put(structures, cfg.id.str, <<target>>)
             /\ created' = created \cup CreatedTypes(st.log)
             /\ hist' = [hist EXCEPT ![cfg.id.str] =
                           Remember(@, [op |-> "draw", cfg |-> cfg, resolved |-> target,
                                        target |-> target, former |-> Undefined,
                                        diff |-> [action |-> "none"], log |-> st.log,
                                        keyshape |-> st.keyshape])]
             /\ last' = [op |-> "draw", cfg |-> cfg, threw |-> FALSE, log |-> st.log,
                         preStructures |-> structures, preSurface |-> surface]

\* PopPush, had update pushed without the pop
PushOnly(arr, target) == Append(arr, target)

\* the array after pop() and push(target)
PopPush(arr, target) ==
    Append(IF Len(arr) = 0 THEN arr ELSE SubSeq(arr, 1, Len(arr) - 1), target)

\* structures after lines 325-327: an empty array for an id it does not hold
WithArray(id) == IF id \notin DOMAIN structures THEN Put(structures, id, <<>>) ELSE structures

\* lastTarget = structures.get(id).pop()
Popped(arr) == IF Len(arr) = 0 THEN Undefined ELSE arr[Len(arr)]

\* the body of update(cfg, node), called as op ("update", or "setState")
UpdateBody(op, cfg) ==
    \E id \in {cfg.id.str} :
    \E target \in {compileXML(cfg, <<calls + 1>>)} :
      IF IsThrow(target) THEN Thrown(op, cfg, WithArray(id))
      ELSE
        \E lastTarget \in {Popped(WithArray(id)[id])} :
        \E cmp \in {compareTwoTarget(target, lastTarget)} :
        \E st \in {updateTarget(cmp.diff, [children |-> surface[id], log |-> <<>>])} :
          /\ surface' = [surface EXCEPT ![id] = st.children]
          /\ structures' = [WithArray(id) EXCEPT ![id] = PopPush(@, cmp.now)]
          /\ created' = created \cup CreatedTypes(st.log)
          /\ hist' = [hist EXCEPT ![id] =
                        Remember(@, [op |-> op, cfg |-> cfg, resolved |-> target,
                                     target |-> cmp.now, former |-> lastTarget,
                                     diff |-> cmp.diff, log |-> st.log, keyshape |-> 0])]
          /\ last' = [op |-> op, cfg |-> cfg, threw |-> FALSE, log |-> st.log,
                      preStructures |-> structures, preSurface |-> surface]

\* update(cfg, node): the graph has stored cfg as the node's model
Update(cfg) ==
    /\ calls < MaxCalls
    /\ calls' = calls + 1
    /\ models' = Put(models, cfg.id.str, cfg)
    /\ UNCHANGED <<pc, pin, pout>>
    /\ UpdateBody("update", cfg)

\* the cfg setState builds from the node's model
StateCfg(model, name, value) ==
    LET style == Get(model, "style")
        named == IF IsObj(style) THEN Get(style.obj, name) ELSE Undefined
    IN IF value /\ Truthy(style) /\ Truthy(named)
       THEN Put(model, "style", Obj(<<0, 2>>, Merge(style.obj, Spread(named))))
       ELSE model

\* setState(name, value, node) for a node the graph holds a model of
SetState(id, name, value) ==
    /\ calls < MaxCalls
    /\ id \in DOMAIN models
    /\ calls' = calls + 1
    /\ UNCHANGED <<models, pc, pin, pout>>
    /\ UpdateBody("setState", StateCfg(models[id], name, value))

Next ==
    \/ \E id \in Ids : \E cfg \in Cfgs(id) : Draw(cfg)
    \/ \E id \in Ids : \E cfg \in Cfgs(id) : Update(cfg)
    \/ \E id \in Ids : \E value \in BOOLEAN : SetState(id, "hover", value)

Spec == Init /\ [][Next]_vars

----------------------------------------------------------------------------
(* The pure pipeline: parseXML and generateTarget on two configurations,   *)
(* then compareTwoTarget on the two resolved trees.                        *)

TemplateNames ==
    {"rectAttr", "rectStyle", "rectFill", "rectState", "groupTwo", "groupOne", "rectTwo",
     "sameTwo", "rectOne", "groupDeep", "nested", "badStyle", "badAttrs", "text", "shadow",
     "keyed", "margin"}

PureCfgs ==
    {Cfg("p", t, w, 50) : t \in TemplateNames, w \in {100, 120}}
    \cup {Put(Cfg("p", "rectState", 100, 50), "style", StyleModel)}

Offsets == {ZeroOffset, [x |-> Num(5), y |-> Num(5)]}

InitPure ==
    /\ structures = EmptyMap
    /\ surface = [id \in Ids |-> <<>>]
    /\ models = EmptyMap
    /\ calls = 0
    /\ created = {}
    /\ hist = [id \in Ids |-> <<>>]
    /\ last = NoCall
    /\ pc = "start"
    /\ pin \in {[now |-> a, former |-> b, offset |-> o] : a \in PureCfgs, b \in PureCfgs, o \in Offsets}
    /\ pout = NoCall

\* generateTarget(parseXML(xml), offset), or Throw
Resolved(parsed, offset) == IF IsThrow(parsed) THEN Throw ELSE generateTarget(parsed, offset)

\* both configurations are parsed and resolved; the former tree is the older allocation
Resolve ==
    /\ pc = "start"
    /\ pc' = "resolved"
    /\ \E nowParsed \in {parseXML(gen(pin.now), <<2>>)} :
       \E formerParsed \in {parseXML(gen(pin.former), <<1>>)} :
         pout' = [nowParsed |-> nowParsed,
                  formerParsed |-> formerParsed,
                  now |-> Resolved(nowParsed, pin.offset),
                  former |-> Resolved(formerParsed, pin.offset)]
    /\ UNCHANGED <<structures, surface, models, calls, created, hist, last, pin>>

\* compareTwoTarget(now, former); nowAfter is nowTarget as the call leaves it
Compare ==
    /\ pc = "resolved"
    /\ ~IsThrow(pout.now)
    /\ ~IsThrow(pout.former)
    /\ pc' = "compared"
    /\ \E cmp \in {compareTwoTarget(pout.now, pout.former)} :
         pout' = [nowParsed |-> pout.nowParsed,
                  formerParsed |-> pout.formerParsed,
                  now |-> pout.now,
                  former |-> pout.former,
                  diff |-> cmp.diff,
                  nowAfter |-> cmp.now]
    /\ UNCHANGED <<structures, surface, models, calls, created, hist, last, pin>>

NextPure == Resolve \/ Compare

SpecPure == InitPure /\ [][NextPure]_vars

----------------------------------------------------------------------------
(* Helpers of the properties *)

\* the number of times x occurs in sequence s
Count(s, x) == Cardinality({i \in DOMAIN s : s[i] = x})

\* the same multiset of shapes (type, attrs and so key)
SameShapes(a, b) == \A x \in Range(a) \cup Range(b) : Count(a, x) = Count(b, x)

\* the host surface draw populates from a resolved tree
DrawnShapes(target) ==
    renderTarget(target, [children |-> <<>>, log |-> <<>>, keyshape |-> 0]).children

\* the host calls of a log with this op
CallsOf(log, op) == Cardinality({i \in DOMAIN log : log[i].op = op})

\* a tree without the attrs.key of its nodes
RECURSIVE StripKeys(_)
StripKeys(node) ==
    LET stripped == [node EXCEPT !.attrs = [k \in DOMAIN node.attrs \ {"key"} |-> node.attrs[k]]]
    IN IF "children" \in DOMAIN node
       THEN [stripped EXCEPT !.children = [i \in DOMAIN node.children |-> StripKeys(node.children[i])]]
       ELSE stripped

\* some tag of the element has a style or attrs attribute that fails the parse
RECURSIVE BadReserved(_)
BadReserved(xml) ==
    \/ \E i \in DOMAIN xml.attributes :
          /\ keyConvert(xml.attributes[i].name) \in {"style", "attrs"}
          /\ ~JSON5parse(xml.attributes[i].val, <<>>).ok
    \/ \E i \in DOMAIN xml.children : BadReserved(xml.children[i])

\* every node of a diff tree is 'same'
RECURSIVE AllSame(_)
AllSame(d) ==
    /\ d.action = "same"
    /\ "children" \in DOMAIN d => \A i \in DOMAIN d.children : AllSame(d.children[i])

BBox(x, y, w, h) == [x |-> Num(x), y |-> Num(y), width |-> Num(w), height |-> Num(h)]

----------------------------------------------------------------------------
(* C1.  Convergence: a surface populated by draw from B and then updated  *)
(* with A holds the same multiset of shapes (types, attrs, keys) as a      *)
(* surface populated by draw from A.                                       *)
Convergence ==
    \A id \in Ids :
        LET h == hist[id]
        IN (Len(h) = 2 /\ h[1].op = "draw" /\ h[2].op = "update")
           => SameShapes(surface[id], DrawnShapes(h[2].resolved))

(* C5.  No host create call is ever issued with type 'group'.              *)
GroupNeverCreated == "group" \notin created

(* C6.  Whenever a style or attrs attribute of the template fails the      *)
(* structured-literal parse, the draw/update call throws, issues no host   *)
(* call and leaves the cache and the surface as they were.                 *)
ConfigurationErrorFatal ==
    (last.op # "none" /\ BadReserved(gen(last.cfg)))
    => /\ last.threw
       /\ last.log = <<>>
       /\ structures = last.preStructures
       /\ surface = last.preSurface

(* C10.  After every call that returned for node id the cache entry of id  *)
(* holds exactly one tree, the tree that call resolved (with the keys      *)
(* compareTwoTarget carried over), and an update diffs against the tree    *)
(* stored by the preceding call that returned for id, or against nothing   *)
(* when there is none.                                                     *)
CacheInvariant ==
    \A id \in Ids :
        LET h == hist[id]
            cur == h[Len(h)]
        IN Len(h) > 0
           => /\ id \in DOMAIN structures
              /\ Len(structures[id]) = 1
              /\ structures[id][1] = cur.target
              /\ StripKeys(structures[id][1]) = StripKeys(compileXML(cur.cfg, <<0>>))
              /\ cur.op # "draw"
                 => cur.former = (IF Len(h) = 2 THEN h[1].target ELSE Undefined)

\* an update of a drawn node returned, and it found a change
CacheWitness ==
    \E id \in Ids :
        /\ Len(hist[id]) = 2
        /\ hist[id][1].op = "draw"
        /\ hist[id][2].op = "update"
        /\ hist[id][2].diff.action = "change"
        /\ Len(structures[id]) = 1

(* C4.  The rect scenario as the spec states it: for                       *)
(* <rect width="{{w}}" height="{{h}}"/>, drawing with {w: 100, h: 50}      *)
(* gives the root bbox {0, 0, 100, 50}; the update with {w: 120, h: 50}    *)
(* gives 'change' with attrs.width = 120, one attribute update on a host   *)
(* shape and no create or remove call.                                     *)
Scenario(id, tpl) ==
    /\ Len(hist[id]) = 2
    /\ hist[id][1].op = "draw"
    /\ hist[id][1].cfg = Cfg(id, tpl, 100, 50)
    /\ hist[id][2].op = "update"
    /\ hist[id][2].cfg = Cfg(id, tpl, 120, 50)

ChangeOfWidth(id) ==
    /\ hist[id][1].target.bbox = BBox(0, 0, 100, 50)
    /\ hist[id][2].diff.action = "change"
    /\ hist[id][2].diff.val.attrs.width = Num(120)
    /\ CallsOf(hist[id][2].log, "attr") = 1
    /\ CallsOf(hist[id][2].log, "addShape") = 0
    /\ CallsOf(hist[id][2].log, "removeChild") = 0

RectScenario == \A id \in Ids : Scenario(id, "rectAttr") => ChangeOfWidth(id)

(* C4, amended.  width and height attributes are stored on the node, not   *)
(* in attrs: for <rect width="{{w}}" height="{{h}}"/> the root bbox is     *)
(* {0, 0, 0, 0}, the update yields 'same' and issues no host call.  With   *)
(* the geometry in the style attribute,                                    *)
(* <rect style="{width: {{w}}, height: {{h}}}"/>, the scenario is as       *)
(* stated: bbox {0, 0, 100, 50}, 'change' with attrs.width = 120, one      *)
(* attribute update, no create or remove call.                             *)
RectScenarioAmended ==
    \A id \in Ids :
        /\ Scenario(id, "rectStyle") => ChangeOfWidth(id)
        /\ Scenario(id, "rectAttr")
           => /\ hist[id][1].target.bbox = BBox(0, 0, 0, 0)
              /\ hist[id][1].target.rest = [width |-> Num(100), height |-> Num(50)]
              /\ hist[id][2].diff.action = "same"
              /\ hist[id][2].log = <<>>

\* the scenario has run with the template of the spec
RectScenarioWitness == \E id \in Ids : Scenario(id, "rectAttr")

----------------------------------------------------------------------------
(* Properties of the pure pipeline *)

\* the resolved trees of the state, each with the parsed tree it came from
ResolvedPairs ==
    IF pc \in {"resolved", "compared"}
    THEN {pr \in {[parsed |-> pout.nowParsed, tree |-> pout.now],
                  [parsed |-> pout.formerParsed, tree |-> pout.former]} : ~IsThrow(pr.tree)}
    ELSE {}

\* bbox.width >= child.bbox.x + child.bbox.width, and so for the height
EnclosesWidth(node, child) == node.bbox.width.num >= child.bbox.x.num + child.bbox.width.num
EnclosesHeight(node, child) == node.bbox.height.num >= child.bbox.y.num + child.bbox.height.num

RECURSIVE Encloses(_)
Encloses(node) ==
    HasChildren(node)
    => \A i \in DOMAIN node.children :
          /\ EnclosesWidth(node, node.children[i])
          /\ EnclosesHeight(node, node.children[i])
          /\ Encloses(node.children[i])

(* C2.  Layout enclosure: after generateTarget every node with children    *)
(* has a bbox at least as wide and as high as the extent of each child,    *)
(* whatever geometry attrs the node declares.                              *)
LayoutEnclosure == \A pr \in ResolvedPairs : Encloses(pr.tree)

\* The explicit geometry the node declares is ShapeSize of the attrs it was
\* parsed with; it is in effect on an axis when it is a number >= 0.
RECURSIVE EnclosesOrExplicit(_, _)
EnclosesOrExplicit(parsed, node) ==
    LET size == ShapeSize(parsed.type, parsed.attrs)
    IN HasChildren(node)
       => /\ IF JsGe0(size.w) THEN node.bbox.width = size.w
             ELSE \A i \in DOMAIN node.children : EnclosesWidth(node, node.children[i])
          /\ IF JsGe0(size.h) THEN node.bbox.height = size.h
             ELSE \A i \in DOMAIN node.children : EnclosesHeight(node, node.children[i])
          /\ \A i \in DOMAIN node.children :
                EnclosesOrExplicit(parsed.children[i], node.children[i])

(* C2, amended.  After generateTarget, for every node with children and    *)
(* each axis: when the node declares no explicit geometry for its type on  *)
(* that axis (width/height; r; rx and ry; text), its bbox encloses the     *)
(* extent of every child; when it does, the bbox is the explicit size on   *)
(* that axis, which may be smaller than the children's extent.             *)
LayoutEnclosureAmended == \A pr \in ResolvedPairs : EnclosesOrExplicit(pr.parsed, pr.tree)

\* a resolved parent narrower than its child, and one that grew to enclose a
\* child that does not start at 0
LayoutWitness ==
    /\ pc = "resolved"
    /\ ~IsThrow(pout.now) /\ ~IsThrow(pout.former)
    /\ HasChildren(pout.now) /\ HasChildren(pout.former)
    /\ ~EnclosesWidth(pout.now, pout.now.children[1])
    /\ pout.former.type = "group"
    /\ pout.former.children[1].bbox.x.num > 0
    /\ EnclosesWidth(pout.former, pout.former.children[1])

(* C3.  Reflexivity: comparing a tree with a deep-equal copy of it (the    *)
(* same configuration resolved twice) yields 'same' at every node of the   *)
(* diff tree, nested object values in attrs included.                      *)
Reflexivity == (pc = "compared" /\ pin.now = pin.former) => AllSame(pout.diff)

\* the children field as the length the claim counts: absent is 0
LengthOrZero(node) == IF "children" \in DOMAIN node THEN Len(node.children) ELSE 0

(* C7.  Child diff alignment: with both nodes present the diff has         *)
(* max(len(current.children), len(previous.children)) children, an absent  *)
(* children field counting as 0, and entry i is the diff of the two        *)
(* children at position i, a missing one being absent.                     *)
ChildDiffAlignment ==
    pc = "compared"
    => LET n == IF LengthOrZero(pout.now) >= LengthOrZero(pout.former)
                THEN LengthOrZero(pout.now) ELSE LengthOrZero(pout.former)
       IN /\ Len(pout.diff.children) = n
          /\ \A i \in 1..n :
                pout.diff.children[i] =
                   compareTwoTarget(At(ChildrenOrEmpty(pout.now), i),
                                    At(ChildrenOrEmpty(pout.former), i)).diff

\* the current template is the previous one without its first child of two
FirstChildRemoved ==
    LET now == gen(pin.now)
        former == gen(pin.former)
    IN /\ Len(former.children) = 2
       /\ now.children = <<former.children[2]>>
       /\ now.tagName = former.tagName
       /\ now.attributes = former.attributes

(* C8.  First child removed: the diff has 'delete' at the first child's    *)
(* position and 'same' or 'change' at the second.                          *)
FirstChildRemoval ==
    (pc = "compared" /\ FirstChildRemoved)
    => /\ pout.diff.children[1].action = "delete"
       /\ pout.diff.children[2].action \in {"same", "change"}

(* C8, amended.  The children are compared by position: children[0] is     *)
(* the diff of the remaining child against the previous first child        *)
(* ('same', 'change', or 'restructure' when their types differ), and the   *)
(* 'delete' is at the last position, children[1], with the previous        *)
(* second child as its payload.                                            *)
FirstChildRemovalAmended ==
    (pc = "compared" /\ FirstChildRemoved)
    => /\ Len(pout.diff.children) = 2
       /\ pout.diff.children[1].action =
             (IF pout.now.children[1].type # pout.former.children[1].type THEN "restructure"
              ELSE IF AttrsChanged(pout.nowAfter.children[1].attrs, pout.former.children[1].attrs)
                   THEN "change" ELSE "same")
       /\ pout.diff.children[2].action = "delete"
       /\ pout.diff.children[2].val = pout.former.children[2]

\* the scenario was compared and the remaining child only changed
FirstChildWitness ==
    /\ pc = "compared"
    /\ FirstChildRemoved
    /\ pout.diff.children[1].action = "change"
    /\ pout.diff.children[2].action = "delete"

(* C9.  Diff purity: compareTwoTarget leaves both input trees as they were. *)
DiffPurity == pc = "compared" => pout.nowAfter = pout.now

\* the keys of after are those of before, but for the key of the previous
\* node carried to the node at the same position
RECURSIVE KeysCarried(_, _, _)
KeysCarried(after, before, former) ==
    /\ Get(after.attrs, "key") =
          (IF Truthy(Get(former.attrs, "key")) THEN former.attrs.key ELSE Get(before.attrs, "key"))
    /\ ("key" \in DOMAIN after.attrs) =
          (Truthy(Get(former.attrs, "key")) \/ "key" \in DOMAIN before.attrs)
    /\ "children" \in DOMAIN before
       => \A i \in DOMAIN before.children :
             IF "children" \in DOMAIN former /\ i \in DOMAIN former.children
             THEN KeysCarried(after.children[i], before.children[i], former.children[i])
             ELSE after.children[i] = before.children[i]

(* C9, amended.  compareTwoTarget changes nothing of its inputs but        *)
(* attrs.key of current: a node of current whose counterpart at the same   *)
(* position of previous has a truthy attrs.key gets that key; every type,  *)
(* every other attr and the shape of the tree stay as they were.           *)
DiffPurityAmended ==
    pc = "compared"
    => /\ StripKeys(pout.nowAfter) = StripKeys(pout.now)
       /\ KeysCarried(pout.nowAfter, pout.now, pout.former)

\* a comparison that changed a key of the current tree
DiffPurityWitness ==
    /\ pc = "compared"
    /\ pout.nowAfter # pout.now
    /\ Get(pout.nowAfter.attrs, "key") = Get(pout.former.attrs, "key")

====
